---- MODULE Spec2Model ----
(***************************************************************************)
(* Model of the Google Sheets -> Airtable sync script                      *)
(* (src/src/google-apps-script/SheetsToAirtableSync.js).                   *)
(*                                                                         *)
(* Strings are sequences of characters, JavaScript values are tagged       *)
(* records, money is counted in cents and time in clock ticks.             *)
(***************************************************************************)
EXTENDS Integers, Sequences, FiniteSets, TLC

VARIABLES
    clock,             \* the host clock, in ticks (new Date())
    lastAutoSyncTime,  \* script property RATE_LIMIT_PROP_KEY: NoProp or an ISO string
    remote,            \* the Airtable table: list of records {id, page, fld, Raised, Donations}
    sheet,             \* the sheet SHEET_NAME: whether it exists and its getValues() grid
    pc,                \* position of the running trigger execution
    trigger,           \* the entry point that started the last execution
    rateLimited,       \* the last call of shouldRespectRateLimit: what it read and returned
    airtableRecords,   \* syncData: result of fetchAirtableRecords
    sheetData,         \* syncData: result of getSheetData
    formTotals,        \* processData: own properties of the object formTotals
    formDonations,     \* processData: own properties of the object formDonations
    processedData,     \* syncData: result of processData
    index,             \* updateAirtable: number of forEach callbacks completed
    successCount,      \* updateAirtable
    errorCount,        \* updateAirtable
    requests,          \* HTTP requests issued by the last execution, in order
    log,               \* levels of the rows the last execution appended to the Logs sheet
    startState,        \* observation: property and sheet as they were when the execution began
    autoStamps,        \* observation: clock readings of the last two updateLastSyncTime calls
    prevRun,           \* observation: outcome of the syncData run before the last one
    pacing,            \* updateAirtable: the sleeps and requests of the forEach, in order
    targets,           \* multi-destination script: the list AIRTABLE_TARGETS
    cfgIndex,          \* multi-destination script: forEach callbacks of syncData completed
    apiKey,            \* multi-destination script: script property AIRTABLE_API_KEY is set
    tables,            \* multi-destination script: the Airtable table behind each target
    stageLog,          \* observation: the stages the last syncData run went through
    racePc,            \* unserialized host: position of each onEdit execution
    raceSaw            \* unserialized host: what each execution's rate-limit check read

envVars  == <<clock, lastAutoSyncTime, remote, sheet>>
syncVars == <<airtableRecords, sheetData, formTotals, formDonations, processedData,
              index, successCount, errorCount, requests, pacing>>
runVars  == <<pc, trigger, rateLimited, syncVars, log, startState>>
obsVars  == <<autoStamps, prevRun>>
targetVars == <<targets, cfgIndex, apiKey, tables, stageLog>>
raceVars == <<racePc, raceSaw>>
otherVars == <<targetVars, raceVars>>
vars     == <<envVars, runVars, obsVars, otherVars>>

-----------------------------------------------------------------------------
(* Bounds of the model *)

MaxUrlLen   == 3   \* longest URL string drawn for a fetched record
MaxRecs     == 2   \* most records in a fetch response
MaxRows     == 2   \* most data rows / retained rows drawn
MaxClock    == 5   \* the clock stops ticking here
TicksPerHour == 2  \* clock ticks in one hour

-----------------------------------------------------------------------------
(* Strings *)

Chars == {"d", "/"}

RECURSIVE StringsUpTo(_)
StringsUpTo(n) ==
    IF n = 0 THEN {<<>>}
    ELSE LET shorter == StringsUpTo(n - 1)
         IN  shorter \cup {Append(s, c) : s \in {t \in shorter : Len(t) = n - 1}, c \in Chars}

\* const ACTBLUE_URL_PREFIX = "https://secure.actblue.com/donate/"
ACTBLUE_URL_PREFIX == <<"d", "/">>

\* s.startsWith(p) at offset i (1-based)
MatchesAt(s, p, i) ==
    /\ i + Len(p) - 1 <= Len(s)
    /\ \A j \in 1..Len(p) : s[i + j - 1] = p[j]

\* String.prototype.indexOf: 1-based position of the first occurrence, 0 for -1
IndexOf(s, p) ==
    LET hits == {i \in 1..(Len(s) + 1) : MatchesAt(s, p, i)}
    IN  IF hits = {} THEN 0 ELSE CHOOSE i \in hits : \A j \in hits : i <= j

\* String.prototype.replace(p, '') with a string pattern: removes the first
\* occurrence of p, wherever it is, and keeps what is before and after it
ReplaceFirstWithEmpty(s, p) ==
    LET i == IndexOf(s, p)
    IN  IF i = 0 THEN s
        ELSE SubSeq(s, 1, i - 1) \o SubSeq(s, i + Len(p), Len(s))

-----------------------------------------------------------------------------
(* JavaScript values *)

Undefined == [t |-> "undefined"]
Num(n)    == [t |-> "number", n |-> n]
NaN       == [t |-> "NaN"]
FnObject  == [t |-> "function"]            \* Object.prototype.constructor etc.
Str(s)    == [t |-> "string", s |-> s]

\* ToBoolean
Truthy(v) ==
    CASE v.t = "undefined" -> FALSE
      [] v.t = "NaN"       -> FALSE
      [] v.t = "number"    -> v.n # 0
      [] v.t = "string"    -> v.s # <<>>
      [] OTHER             -> TRUE

\* a || b
OrElse(a, b) == IF Truthy(a) THEN a ELSE b

-----------------------------------------------------------------------------
(* fetchAirtableRecords *)

\* the record => {id, actBlueUrl, formSlug} callback of data.records.map
ExtractRecord(record) ==
    LET actBlueUrl == IF record.page # <<>> THEN record.page
                      ELSE IF record.fld # <<>> THEN record.fld
                      ELSE <<>>
        formSlug   == IF actBlueUrl # <<>> /\ IndexOf(actBlueUrl, ACTBLUE_URL_PREFIX) # 0
                      THEN ReplaceFirstWithEmpty(actBlueUrl, ACTBLUE_URL_PREFIX)
                      ELSE <<>>
    IN  [id |-> record.id, actBlueUrl |-> actBlueUrl, formSlug |-> formSlug]

\* .filter(...) left out: every mapped record is kept
KeepsEveryRecord(record) == TRUE

\* .filter(record => record.formSlug)
HasFormSlug(record) == record.formSlug # <<>>

FetchOutcomes == {"ok", "norecords", "throws"}

\* the value fetchAirtableRecords returns, by the outcome of the GET request
fetchAirtableRecords(table, outcome) ==
    IF outcome = "ok"
    THEN SelectSeq([i \in 1..Len(table) |-> ExtractRecord(table[i])], HasFormSlug)
    ELSE <<>>

\* the rows fetchAirtableRecords appends to the Logs sheet
fetchLog(table, outcome) ==
    <<"INFO">> \o (IF outcome = "ok" THEN <<"INFO">> ELSE <<"ERROR">>)

-----------------------------------------------------------------------------
(* Number parsing: amounts are counted in cents, counts in units *)

Digits == {"0", "1", "5"}

DigitVal(c) == CASE c = "0" -> 0 [] c = "1" -> 1 [] c = "5" -> 5

\* first position >= i of s that holds no digit (Len(s) + 1 when there is none)
DigitEnd(s, i) ==
    CHOOSE j \in i..(Len(s) + 1) :
        /\ \A k \in i..(j - 1) : s[k] \in Digits
        /\ (j <= Len(s) => s[j] \notin Digits)

\* the decimal number written by the digits s[i..j-1]
RECURSIVE DigitsValue(_, _, _)
DigitsValue(s, i, j) ==
    IF j <= i THEN 0 ELSE 10 * DigitsValue(s, i, j - 1) + DigitVal(s[j - 1])

\* parseFloat of a string: the longest prefix [-]digits[.digits], in cents
\* (fraction digits after the second are below a cent and are dropped)
ParseFloatString(s) ==
    LET neg    == Len(s) >= 1 /\ s[1] = "-"
        start  == IF neg THEN 2 ELSE 1
        e1     == DigitEnd(s, start)
        hasDot == e1 <= Len(s) /\ s[e1] = "."
        e2     == IF hasDot THEN DigitEnd(s, e1 + 1) ELSE e1
        nFrac  == IF hasDot THEN e2 - (e1 + 1) ELSE 0
        frac   == IF nFrac = 0 THEN 0
                  ELSE IF nFrac = 1 THEN 10 * DigitVal(s[e1 + 1])
                  ELSE 10 * DigitVal(s[e1 + 1]) + DigitVal(s[e1 + 2])
        abs    == 100 * DigitsValue(s, start, e1) + frac
    IN  IF e1 = start /\ nFrac = 0 THEN NaN
        ELSE Num(IF neg THEN 0 - abs ELSE abs)

\* parseInt of a string: the longest prefix [-]digits, in units
ParseIntString(s) ==
    LET neg    == Len(s) >= 1 /\ s[1] = "-"
        start  == IF neg THEN 2 ELSE 1
        e1     == DigitEnd(s, start)
        abs    == DigitsValue(s, start, e1)
    IN  IF e1 = start THEN NaN
        ELSE Num(IF neg THEN 0 - abs ELSE abs)

\* parseFloat(cell): a number cell is itself, a string cell is parsed
parseFloat(v) ==
    CASE v.t = "number" -> v
      [] v.t = "string" -> ParseFloatString(v.s)
      [] OTHER          -> NaN

\* parseInt(cell): a number cell (in cents) is truncated toward zero to units
parseInt(v) ==
    CASE v.t = "number" -> Num(IF v.n >= 0 THEN v.n \div 100 ELSE 0 - ((0 - v.n) \div 100))
      [] v.t = "string" -> ParseIntString(v.s)
      [] OTHER          -> NaN

-----------------------------------------------------------------------------
(* getSheetData *)

\* const SHEET_NAME = "raw_import"
SHEET_NAME == "raw_import"

\* headers.indexOf(name): 1-based position of the first match, 0 for -1
HeaderIndexOf(headers, name) ==
    LET hits == {i \in 1..Len(headers) : headers[i] = name}
    IN  IF hits = {} THEN 0 ELSE CHOOSE i \in hits : \A j \in hits : i <= j

\* formSlugs.includes(formName): SameValueZero against a list of strings
Includes(formSlugs, formName) ==
    /\ formName.t = "string"
    /\ \E i \in 1..Len(formSlugs) : formSlugs[i] = formName.s

\* if (dollarsRaised > 0 || numDonations > 0), with && in place of ||
HasDonationBoth(dollarsRaised, numDonations) == dollarsRaised.n > 0 /\ numDonations.n > 0

\* if (dollarsRaised > 0 || numDonations > 0)
HasDonation(dollarsRaised, numDonations) == dollarsRaised.n > 0 \/ numDonations.n > 0

\* the body of the for loop over values[1..]: the rows pushed to sheetData
RECURSIVE SheetRowsFrom(_, _, _, _, _, _)
SheetRowsFrom(vals, i, formSlugs, formNameIndex, dollarsRaisedIndex, numDonationsIndex) ==
    IF i > Len(vals) THEN <<>>
    ELSE
        LET row           == vals[i]
            formName      == row[formNameIndex]
            dollarsRaised == OrElse(parseFloat(row[dollarsRaisedIndex]), Num(0))
            numDonations  == OrElse(parseInt(row[numDonationsIndex]), Num(0))
            pushed        == IF /\ Truthy(formName)
                                /\ Includes(formSlugs, formName)
                                /\ HasDonation(dollarsRaised, numDonations)
                             THEN << [formName      |-> formName.s,
                                      dollarsRaised |-> dollarsRaised.n,
                                      numDonations  |-> numDonations.n] >>
                             ELSE <<>>
        IN  pushed \o SheetRowsFrom(vals, i + 1, formSlugs, formNameIndex,
                                    dollarsRaisedIndex, numDonationsIndex)

\* why getSheetData returns early with [], or "ok"
SheetProblem(sh) ==
    IF ~sh.exists THEN "nosheet"
    ELSE IF Len(sh.values) <= 1 THEN "nodata"
    ELSE IF \/ HeaderIndexOf(sh.values[1], "form_name") = 0
            \/ HeaderIndexOf(sh.values[1], "dollars_raised") = 0
            \/ HeaderIndexOf(sh.values[1], "num_of_donations") = 0 THEN "nocolumns"
    ELSE "ok"

getSheetData(sh, records) ==
    IF SheetProblem(sh) # "ok" THEN <<>>
    ELSE SheetRowsFrom(sh.values, 2,
                       [i \in 1..Len(records) |-> records[i].formSlug],
                       HeaderIndexOf(sh.values[1], "form_name"),
                       HeaderIndexOf(sh.values[1], "dollars_raised"),
                       HeaderIndexOf(sh.values[1], "num_of_donations"))

\* the rows getSheetData appends to the Logs sheet
getSheetLog(sh) ==
    CASE SheetProblem(sh) = "nosheet"   -> <<"INFO", "ERROR">>
      [] SheetProblem(sh) = "nodata"    -> <<"INFO", "INFO", "ERROR">>
      [] SheetProblem(sh) = "nocolumns" -> <<"INFO", "INFO", "ERROR">>
      [] OTHER                          -> <<"INFO", "INFO", "INFO", "INFO">>

-----------------------------------------------------------------------------
(* processData *)

\* names every object literal {} inherits from Object.prototype
CONSTRUCTOR == <<"c", "o", "n", "s", "t", "r", "u", "c", "t", "o", "r">>
ObjectPrototypeKeys == {CONSTRUCTOR}

\* const formTotals = {}
EmptyObject == [k \in {} |-> Undefined]

\* obj[k]: an own property, else the inherited one, else undefined
Get(obj, k) ==
    IF k \in DOMAIN obj THEN obj[k]
    ELSE IF k \in ObjectPrototypeKeys THEN FnObject
    ELSE Undefined

\* obj[k] = v
Put(obj, k, v) == [x \in (DOMAIN obj) \cup {k} |-> IF x = k THEN v ELSE obj[x]]

\* v + n for a number n: addition of numbers, else string concatenation
\* (the text of v followed by the digits of each number appended so far)
Plus(v, n) ==
    CASE v.t = "number"   -> Num(v.n + n)
      [] v.t = "function" -> [t |-> "text", appended |-> <<n>>]
      [] v.t = "text"     -> [t |-> "text", appended |-> Append(v.appended, n)]

\* one call of the sheetData.forEach callback on the two maps
AggregateItem(acc, item) ==
    LET formName == item.formName
        fresh    == ~Truthy(Get(acc.formTotals, formName))
        totals0  == IF fresh THEN Put(acc.formTotals, formName, Num(0)) ELSE acc.formTotals
        donats0  == IF fresh THEN Put(acc.formDonations, formName, Num(0)) ELSE acc.formDonations
    IN  [formTotals    |-> Put(totals0, formName, Plus(Get(totals0, formName), item.dollarsRaised)),
         formDonations |-> Put(donats0, formName, Plus(Get(donats0, formName), item.numDonations))]

\* sheetData.forEach(...): the maps after the first n items
RECURSIVE AggregateRows(_, _)
AggregateRows(rows, n) ==
    IF n = 0 THEN [formTotals |-> EmptyObject, formDonations |-> EmptyObject]
    ELSE AggregateItem(AggregateRows(rows, n - 1), rows[n])

\* airtableRecords.forEach(...): the instructions pushed from record i on
RECURSIVE JoinFrom(_, _, _)
JoinFrom(records, i, acc) ==
    IF i > Len(records) THEN <<>>
    ELSE
        LET formSlug == records[i].formSlug
            pushed   == IF \/ Get(acc.formTotals, formSlug) # Undefined
                           \/ Get(acc.formDonations, formSlug) # Undefined
                        THEN << [id        |-> records[i].id,
                                 raised    |-> OrElse(Get(acc.formTotals, formSlug), Num(0)),
                                 donations |-> OrElse(Get(acc.formDonations, formSlug), Num(0))] >>
                        ELSE <<>>
        IN  pushed \o JoinFrom(records, i + 1, acc)

\* processData that emits an instruction only for the first record of each form slug
processDataOncePerSlug(records, rows) ==
    LET full == JoinFrom(records, 1, AggregateRows(rows, Len(rows)))
        FirstOfSlug(ins) ==
            \A p, q \in 1..Len(records) :
                (records[q].id = ins.id /\ p < q) => records[p].formSlug # records[q].formSlug
    IN  SelectSeq(full, FirstOfSlug)

processData(records, rows) == JoinFrom(records, 1, AggregateRows(rows, Len(rows)))

-----------------------------------------------------------------------------
(* Rate limiter *)

\* const RATE_LIMIT_HOURS = 1
RATE_LIMIT_HOURS == 1

NoProp == [t |-> "null"]

\* new Date().toISOString(): the instant written out in calendar fields
toISOString(now) ==
    [t |-> "iso", hours |-> now \div TicksPerHour, ticks |-> now % TicksPerHour]

\* new Date(lastSyncTimeStr): the instant an ISO string names
DateParse(str) == str.hours * TicksPerHour + str.ticks

\* return hoursDiff <= RATE_LIMIT_HOURS
shouldRespectRateLimitInclusive(prop, now) ==
    IF prop = NoProp THEN FALSE
    ELSE (now - DateParse(prop)) <= RATE_LIMIT_HOURS * TicksPerHour

\* shouldRespectRateLimit(), reading the property value prop at clock reading now:
\* hoursDiff = (now - lastSyncTime) / (one hour) < RATE_LIMIT_HOURS
shouldRespectRateLimit(prop, now) ==
    IF prop = NoProp THEN FALSE
    ELSE (now - DateParse(prop)) < RATE_LIMIT_HOURS * TicksPerHour

\* the stored string keeps the hour and loses the part of the hour
updateLastSyncTimeHourOnly(now) == [toISOString(now) EXCEPT !.ticks = 0]

\* updateLastSyncTime(): the value stored under RATE_LIMIT_PROP_KEY
updateLastSyncTime(now) == toISOString(now)

-----------------------------------------------------------------------------
(* The environment the executions run in *)

\* the Airtable table behind GET /v0/{base}/{table}: two records with an ActBlue
\* URL (one in the field read by name, one in the field read by id), one without
RemoteTable ==
    << [id |-> "rec1", page |-> ACTBLUE_URL_PREFIX \o <<"a">>, fld |-> <<>>,
        Raised |-> Num(100), Donations |-> Num(1)],
       [id |-> "rec2", page |-> <<>>, fld |-> ACTBLUE_URL_PREFIX \o <<"b">>,
        Raised |-> Num(100), Donations |-> Num(1)],
       [id |-> "rec3", page |-> <<"x">>, fld |-> <<>>,
        Raised |-> Num(100), Donations |-> Num(1)] >>

\* one grid row: the cells of a data row laid out under the header
Layout(header, row) ==
    [c \in 1..Len(header) |->
        CASE header[c] = "form_name"        -> row.form
          [] header[c] = "dollars_raised"   -> row.dollars
          [] header[c] = "num_of_donations" -> row.num
          [] OTHER                          -> Str(<<>>)]

Grid(header, rows) ==
    [exists |-> TRUE,
     values |-> <<header>> \o [i \in 1..Len(rows) |-> Layout(header, rows[i])]]

Cells(form, dollars, num) == [form |-> form, dollars |-> dollars, num |-> num]

SheetHeader == <<"date", "form_name", "num_of_donations", "dollars_raised">>

\* sheets the data sheet can hold
SheetVariants ==
    { Grid(SheetHeader, << Cells(Str(<<"a">>), Num(1050), Num(200)),
                           Cells(Str(<<"a">>), Str(<<"5", ".", "5">>), Str(<<"1">>)),
                           Cells(Str(<<"b">>), Num(0), Num(0)),
                           Cells(Str(<<"g">>), Num(10000), Num(500)) >>),
      Grid(SheetHeader, << Cells(Str(<<"a">>), Num(100), Num(100)),
                           Cells(Str(<<"b">>), Num(250), Num(100)) >>),
      Grid(SheetHeader, << >>) }

-----------------------------------------------------------------------------
(* Observation of the executions *)

NoCall == [called |-> FALSE]
NoRun  == [ran |-> FALSE]

AllOk(reqs) == \A i \in 1..Len(reqs) : reqs[i].outcome \in {"ok", "200"}

Fields(table) == [i \in 1..Len(table) |-> <<table[i].Raised, table[i].Donations>>]

\* what the last completed syncData run did
RunSummary ==
    [ran |-> TRUE, sheet |-> startState.sheet, instructions |-> processedData,
     fields |-> Fields(remote), ok |-> AllOk(requests)]

LastTwo(seq) == IF Len(seq) <= 2 THEN seq ELSE SubSeq(seq, Len(seq) - 1, Len(seq))

\* a trigger execution begins: its locals are fresh
StartExecution(name) ==
    /\ trigger' = name
    /\ airtableRecords' = <<>>
    /\ sheetData' = <<>>
    /\ formTotals' = EmptyObject
    /\ formDonations' = EmptyObject
    /\ processedData' = <<>>
    /\ index' = 0
    /\ successCount' = 0
    /\ errorCount' = 0
    /\ requests' = <<>>
    /\ pacing' = <<>>
    /\ startState' = [prop |-> lastAutoSyncTime, sheet |-> sheet]
    /\ prevRun' = IF requests # <<>> THEN RunSummary ELSE prevRun

-----------------------------------------------------------------------------
(* Triggers *)

\* onEdit(e) that writes the timestamp also when it skips
OnEditCheckStamping(name) ==
    /\ pc = "idle"
    /\ StartExecution("onEdit")
    /\ IF name # SHEET_NAME
       THEN /\ rateLimited' = NoCall
            /\ log' = <<>>
            /\ pc' = "idle"
            /\ UNCHANGED lastAutoSyncTime
       ELSE LET skip == shouldRespectRateLimit(lastAutoSyncTime, clock)
            IN  /\ rateLimited' = [called |-> TRUE, prop |-> lastAutoSyncTime,
                                   lastStamp |-> IF autoStamps = <<>> THEN 0 - 1
                                                 ELSE autoStamps[Len(autoStamps)],
                                   now |-> clock, result |-> skip]
                /\ log' = IF skip THEN <<"INFO">> ELSE <<>>
                /\ pc' = IF skip THEN "idle" ELSE "stamp"
                /\ lastAutoSyncTime' = IF skip THEN updateLastSyncTime(clock)
                                       ELSE lastAutoSyncTime
    /\ UNCHANGED <<clock, remote, sheet, autoStamps, otherVars>>

\* onEdit(e) up to the rate-limit decision; name is e.source.getActiveSheet().getName()
OnEditCheck(name) ==
    /\ pc = "idle"
    /\ StartExecution("onEdit")
    /\ IF name # SHEET_NAME
       THEN /\ rateLimited' = NoCall
            /\ log' = <<>>
            /\ pc' = "idle"
       ELSE LET skip == shouldRespectRateLimit(lastAutoSyncTime, clock)
            IN  /\ rateLimited' = [called |-> TRUE, prop |-> lastAutoSyncTime,
                                   lastStamp |-> IF autoStamps = <<>> THEN 0 - 1
                                                 ELSE autoStamps[Len(autoStamps)],
                                   now |-> clock, result |-> skip]
                /\ log' = IF skip THEN <<"INFO">> ELSE <<>>
                /\ pc' = IF skip THEN "idle" ELSE "stamp"
    /\ UNCHANGED <<envVars, autoStamps, otherVars>>

\* onEdit(e) that leaves the timestamp to be written once the sync is done
OnEditStampDeferred ==
    /\ pc = "stamp"
    /\ log' = Append(log, "INFO")
    /\ pc' = "sync"
    /\ UNCHANGED <<envVars, trigger, rateLimited, syncVars, startState, obsVars, otherVars>>

\* onEdit(e): updateLastSyncTime(); logMessage(...); then syncData()
OnEditStamp ==
    /\ pc = "stamp"
    /\ lastAutoSyncTime' = updateLastSyncTime(clock)
    /\ autoStamps' = LastTwo(Append(autoStamps, clock))
    /\ log' = Append(log, "INFO")
    /\ pc' = "sync"
    /\ UNCHANGED <<clock, remote, sheet, trigger, rateLimited, syncVars, startState, prevRun,
                   otherVars>>

\* manualSyncData() made to honour the rate limit as onEdit does
ManualSyncDataRateLimited ==
    /\ pc = "idle"
    /\ StartExecution("manual")
    /\ rateLimited' = NoCall
    /\ log' = <<"INFO">>
    /\ pc' = IF shouldRespectRateLimit(lastAutoSyncTime, clock) THEN "idle" ELSE "sync"
    /\ UNCHANGED <<envVars, autoStamps, otherVars>>

\* manualSyncData(): logMessage(...); then syncData()
ManualSyncData ==
    /\ pc = "idle"
    /\ StartExecution("manual")
    /\ rateLimited' = NoCall
    /\ log' = <<"INFO">>
    /\ pc' = "sync"
    /\ UNCHANGED <<envVars, autoStamps, otherVars>>

-----------------------------------------------------------------------------
(* syncData, one stage per step *)

\* syncData: logMessage("Starting..."), fetchAirtableRecords() and the test of its result
Fetch(outcome) ==
    /\ pc = "sync"
    /\ LET records == fetchAirtableRecords(remote, outcome)
       IN  /\ airtableRecords' = records
           /\ requests' = Append(requests, [method |-> "GET", id |-> "", outcome |-> outcome])
           /\ log' = log \o <<"INFO">> \o fetchLog(remote, outcome)
                         \o (IF records = <<>> THEN <<"INFO">> ELSE <<>>)
           /\ pc' = IF records = <<>> THEN "idle" ELSE "read"
    /\ UNCHANGED <<envVars, trigger, rateLimited, sheetData, formTotals, formDonations,
                   processedData, index, successCount, errorCount, pacing, startState,
                   obsVars, otherVars>>

\* syncData: getSheetData(airtableRecords) and the test of its result
ReadSheet ==
    /\ pc = "read"
    /\ LET rows == getSheetData(sheet, airtableRecords)
       IN  /\ sheetData' = rows
           /\ log' = log \o getSheetLog(sheet) \o (IF rows = <<>> THEN <<"INFO">> ELSE <<>>)
           /\ pc' = IF rows = <<>> THEN "idle" ELSE "process"
    /\ UNCHANGED <<envVars, trigger, rateLimited, airtableRecords, formTotals, formDonations,
                   processedData, index, successCount, errorCount, requests, pacing,
                   startState, obsVars, otherVars>>

\* syncData: processData(airtableRecords, sheetData), the test of its result and the
\* first logMessage of updateAirtable
Process ==
    /\ pc = "process"
    /\ LET acc    == AggregateRows(sheetData, Len(sheetData))
           result == processData(airtableRecords, sheetData)
       IN  /\ formTotals' = acc.formTotals
           /\ formDonations' = acc.formDonations
           /\ processedData' = result
           /\ log' = log \o <<"INFO", "INFO", "INFO">>
           /\ pc' = IF result = <<>> THEN "idle" ELSE "push"
    /\ UNCHANGED <<envVars, trigger, rateLimited, airtableRecords, sheetData, index,
                   successCount, errorCount, requests, pacing, startState, obsVars,
                   otherVars>>

PatchOutcomes == {"200", "non200", "throws"}

\* a PATCH that adds the totals to the fields instead of setting them
ApplyPatchAdding(table, record) ==
    [i \in 1..Len(table) |->
        IF table[i].id = record.id
        THEN [table[i] EXCEPT !.Raised = Plus(@, record.raised.n),
                              !.Donations = Plus(@, record.donations.n)]
        ELSE table[i]]

\* a PATCH that reaches every record of the table
ApplyPatchEveryRecord(table, record) ==
    [i \in 1..Len(table) |->
        [table[i] EXCEPT !.Raised = record.raised, !.Donations = record.donations]]

\* the table after a PATCH of record.id that the service applied
ApplyPatch(table, record) ==
    [i \in 1..Len(table) |->
        IF table[i].id = record.id
        THEN [table[i] EXCEPT !.Raised = record.raised, !.Donations = record.donations]
        ELSE table[i]]

\* if (index > 1): no delay between the first two requests
SleepBeforeFromSecond(i) == IF i > 1 THEN <<"sleep200">> ELSE <<>>

\* if (index > 0) Utilities.sleep(200), for the callback of (0-based) position i
SleepBefore(i) == IF i > 0 THEN <<"sleep200">> ELSE <<>>

\* errorCount++ only in the else branch, not in the catch block
CountOutcomeIgnoringThrows(outcome, counts) ==
    IF outcome = "200" THEN [counts EXCEPT !.successCount = @ + 1]
    ELSE IF outcome = "non200" THEN [counts EXCEPT !.errorCount = @ + 1]
    ELSE counts

\* successCount++ / errorCount++ by the outcome of one request
CountOutcome(outcome, counts) ==
    IF outcome = "200"
    THEN [counts EXCEPT !.successCount = @ + 1]
    ELSE [counts EXCEPT !.errorCount = @ + 1]

\* updateAirtable: one call of the forEach callback; after the last one the two
\* closing logMessage calls of updateAirtable and syncData
Patch(outcome) ==
    /\ pc = "push"
    /\ index < Len(processedData)
    /\ LET record == processedData[index + 1]
           counts == CountOutcome(outcome, [successCount |-> successCount,
                                            errorCount |-> errorCount])
           last   == index + 1 = Len(processedData)
       IN  /\ requests' = Append(requests,
                                 [method |-> "PATCH", id |-> record.id, outcome |-> outcome])
           /\ remote' = IF outcome = "200" THEN ApplyPatch(remote, record) ELSE remote
           /\ successCount' = counts.successCount
           /\ errorCount' = counts.errorCount
           /\ index' = index + 1
           /\ pacing' = pacing \o SleepBefore(index) \o <<"request">>
           /\ log' = log \o <<IF outcome = "200" THEN "INFO" ELSE "ERROR">>
                         \o (IF last THEN <<"INFO", "INFO">> ELSE <<>>)
           /\ pc' = IF last THEN "idle" ELSE "push"
    /\ UNCHANGED <<clock, lastAutoSyncTime, sheet, trigger, rateLimited, airtableRecords,
                   sheetData, formTotals, formDonations, processedData, startState, obsVars,
                   otherVars>>

-----------------------------------------------------------------------------
(* Environment steps *)

\* time passes
Tick ==
    /\ clock < MaxClock
    /\ clock' = clock + 1
    /\ UNCHANGED <<lastAutoSyncTime, remote, sheet, runVars, obsVars, otherVars>>

\* a user replaces the contents of the data sheet
EditSheet ==
    /\ pc = "idle"
    /\ \E s \in SheetVariants \ {sheet} : sheet' = s
    /\ UNCHANGED <<clock, lastAutoSyncTime, remote, runVars, obsVars, otherVars>>

-----------------------------------------------------------------------------
(* The script under its triggers *)

IdleRun ==
    /\ trigger = "none"
    /\ rateLimited = NoCall
    /\ airtableRecords = <<>>
    /\ sheetData = <<>>
    /\ formTotals = EmptyObject
    /\ formDonations = EmptyObject
    /\ processedData = <<>>
    /\ index = 0
    /\ successCount = 0
    /\ errorCount = 0
    /\ requests = <<>>
    /\ log = <<>>
    /\ autoStamps = <<>>
    /\ prevRun = NoRun
    /\ pacing = <<>>

\* the multi-destination script is not deployed
NoTargets ==
    /\ targets = <<>>
    /\ cfgIndex = 0
    /\ apiKey = TRUE
    /\ tables = <<>>
    /\ stageLog = <<>>

\* the host serializes the executions: pc is the position of the only one
NoRace ==
    /\ racePc = <<>>
    /\ raceSaw = <<>>

Init ==
    /\ clock = 0
    /\ lastAutoSyncTime = NoProp
    /\ remote = RemoteTable
    /\ sheet \in SheetVariants
    /\ pc = "idle"
    /\ startState = [prop |-> lastAutoSyncTime, sheet |-> sheet]
    /\ IdleRun
    /\ NoTargets
    /\ NoRace

SheetNames == {SHEET_NAME, "Logs"}

Next ==
    \/ \E name \in SheetNames : OnEditCheck(name)
    \/ OnEditStamp
    \/ ManualSyncData
    \/ \E outcome \in FetchOutcomes : Fetch(outcome)
    \/ ReadSheet
    \/ Process
    \/ \E outcome \in PatchOutcomes : Patch(outcome)
    \/ Tick
    \/ EditSheet

Spec == Init /\ [][Next]_vars

-----------------------------------------------------------------------------
(* fetchAirtableRecords on every small fetch response *)

RecIds == <<"rec1", "rec2", "rec3", "rec4">>

Urls == StringsUpTo(MaxUrlLen)

\* the URL-bearing fields of one record: the URL under the field name, or under the
\* field id with the named field empty
UrlFields ==
    {[page |-> u, fld |-> <<>>] : u \in Urls} \cup {[page |-> <<>>, fld |-> u] : u \in Urls}

FetchTable(f) ==
    [i \in DOMAIN f |-> [id |-> RecIds[i], page |-> f[i].page, fld |-> f[i].fld,
                         Raised |-> Num(100), Donations |-> Num(1)]]

InitFetch ==
    /\ clock = 0
    /\ lastAutoSyncTime = NoProp
    /\ \E n \in 0..MaxRecs : \E f \in [1..n -> UrlFields] : remote = FetchTable(f)
    /\ sheet = Grid(SheetHeader, <<>>)
    /\ pc = "sync"
    /\ startState = [prop |-> lastAutoSyncTime, sheet |-> sheet]
    /\ IdleRun
    /\ NoTargets
    /\ NoRace

NextFetch == \E outcome \in FetchOutcomes : Fetch(outcome)

SpecFetch == InitFetch /\ [][NextFetch]_vars

\* the URL the script reads from a record of the response
SourceUrl(record) == IF record.page # <<>> THEN record.page ELSE record.fld

FetchReturnedRecords ==
    /\ pc # "sync"
    /\ requests # <<>>
    /\ requests[1].outcome = "ok"

Produced(record) == \E j \in 1..Len(airtableRecords) : airtableRecords[j].id = record.id

\* C4 (as claimed): a fetched record becomes a RemoteRecord if and only if its source
\* URL is non-empty and contains the prefix, and every RemoteRecord has a non-empty
\* matchKey.
C4_ProducedIffContainsPrefix ==
    FetchReturnedRecords =>
        /\ \A i \in 1..Len(remote) :
              Produced(remote[i]) <=>
                  /\ SourceUrl(remote[i]) # <<>>
                  /\ IndexOf(SourceUrl(remote[i]), ACTBLUE_URL_PREFIX) # 0
        /\ \A j \in 1..Len(airtableRecords) : airtableRecords[j].formSlug # <<>>

\* C4 (amended): a fetched record becomes a RemoteRecord if and only if its source URL
\* contains the prefix and is not the prefix alone; the RemoteRecords keep the order
\* of the response and every one has a non-empty matchKey.
C4_ProducedIffPrefixAndMore ==
    FetchReturnedRecords =>
        /\ \A i \in 1..Len(remote) :
              Produced(remote[i]) <=>
                  /\ IndexOf(SourceUrl(remote[i]), ACTBLUE_URL_PREFIX) # 0
                  /\ SourceUrl(remote[i]) # ACTBLUE_URL_PREFIX
        /\ \A j \in 1..Len(airtableRecords) : airtableRecords[j].formSlug # <<>>
        /\ \A j, k \in 1..Len(airtableRecords) :
              j < k => \E a, b \in 1..Len(remote) :
                          /\ a < b
                          /\ remote[a].id = airtableRecords[j].id
                          /\ remote[b].id = airtableRecords[k].id

\* C4 witness: a response holding a record whose URL is the prefix alone (dropped)
\* next to a record that is kept
C4_Witness ==
    /\ FetchReturnedRecords
    /\ Len(airtableRecords) >= 1
    /\ \E i \in 1..Len(remote) :
          SourceUrl(remote[i]) = ACTBLUE_URL_PREFIX /\ ~Produced(remote[i])

\* C5 (as claimed): the matchKey of every RemoteRecord is what remains of its URL
\* after the prefix is stripped from the left end, i.e. URL = prefix + matchKey.
C5_SlugIsRemainderAfterLeftPrefix ==
    FetchReturnedRecords =>
        \A j \in 1..Len(airtableRecords) :
            airtableRecords[j].actBlueUrl = ACTBLUE_URL_PREFIX \o airtableRecords[j].formSlug

-----------------------------------------------------------------------------
(* getSheetData on every small sheet *)

\* the records fetchAirtableRecords returns for a list of form slugs
RecordsFor(slugs) ==
    [i \in 1..Len(slugs) |->
        [id |-> RecIds[i], actBlueUrl |-> ACTBLUE_URL_PREFIX \o slugs[i], formSlug |-> slugs[i]]]

SheetHeaders ==
    { SheetHeader,
      <<"dollars_raised", "form_name", "num_of_donations">>,
      <<"num_of_donations", "dollars_raised", "form_name">>,
      <<"form_name", "dollars_raised">> }

\* cells of a data row: number cells hold cents, string cells hold text
FormCells    == {Str(<<"a">>), Str(<<"g">>), Str(<<>>)}
DollarsCells == {Num(0), Num(0 - 100), Str(<<"1", ".", "5">>)}
NumCells     == {Num(50), Str(<<"1">>), Str(<<"x">>)}

DataRows ==
    {Cells(f, d, n) : f \in FormCells, d \in DollarsCells, n \in NumCells}

RowLists(rows, max) == UNION {[1..n -> rows] : n \in 0..max}

InitSheet ==
    /\ clock = 0
    /\ lastAutoSyncTime = NoProp
    /\ remote = RemoteTable
    /\ \E header \in SheetHeaders, rows \in RowLists(DataRows, MaxRows) :
          sheet = Grid(header, rows)
    /\ pc = "read"
    /\ startState = [prop |-> lastAutoSyncTime, sheet |-> sheet]
    /\ trigger = "none"
    /\ rateLimited = NoCall
    /\ airtableRecords \in {RecordsFor(<< <<"a">> >>), RecordsFor(<< <<"b">>, <<"a">> >>)}
    /\ sheetData = <<>>
    /\ formTotals = EmptyObject
    /\ formDonations = EmptyObject
    /\ processedData = <<>>
    /\ index = 0
    /\ successCount = 0
    /\ errorCount = 0
    /\ requests = <<>>
    /\ log = <<>>
    /\ autoStamps = <<>>
    /\ prevRun = NoRun
    /\ pacing = <<>>
    /\ NoTargets
    /\ NoRace

NextSheet == ReadSheet

SpecSheet == InitSheet /\ [][NextSheet]_vars

\* the cell of data row i (1-based, below the header) under the named column
CellOf(i, column) == sheet.values[i + 1][HeaderIndexOf(sheet.values[1], column)]

CandidateKeys == {airtableRecords[j].formSlug : j \in 1..Len(airtableRecords)}

CoercedDollars(i) == OrElse(parseFloat(CellOf(i, "dollars_raised")), Num(0)).n
CoercedCount(i)   == OrElse(parseInt(CellOf(i, "num_of_donations")), Num(0)).n

\* the retention rule as the specification states it
Retained(i) ==
    /\ \E k \in CandidateKeys : CellOf(i, "form_name") = Str(k)
    /\ (CoercedDollars(i) > 0 \/ CoercedCount(i) > 0)

RetainedRows == {i \in 1..(Len(sheet.values) - 1) : Retained(i)}

\* the i-th smallest element of a finite set of numbers
RECURSIVE NthOf(_, _)
NthOf(set, i) ==
    LET least == CHOOSE x \in set : \A y \in set : x <= y
    IN  IF i = 1 THEN least ELSE NthOf(set \ {least}, i - 1)

\* C3: on a sheet with the three required columns, getSheetData returns exactly the
\* data rows whose form_name is a candidate key and whose coerced amount or coerced
\* count is positive, in sheet order, each with amount > 0 or count > 0.
C3_RetainedIffKeyAndPositive ==
    (pc # "read" /\ SheetProblem(sheet) \in {"ok", "nodata"}) =>
        /\ Len(sheetData) = Cardinality(RetainedRows)
        /\ \A j \in 1..Len(sheetData) :
              LET i == NthOf(RetainedRows, j)
              IN  /\ Str(sheetData[j].formName) = CellOf(i, "form_name")
                  /\ sheetData[j].dollarsRaised = CoercedDollars(i)
                  /\ sheetData[j].numDonations = CoercedCount(i)
                  /\ (sheetData[j].dollarsRaised > 0 \/ sheetData[j].numDonations > 0)

\* C3 witness: a two-row sheet of which one row is kept on its count alone (its amount
\* is not positive) and the other, also under a candidate key, is dropped
C3_Witness ==
    /\ pc # "read"
    /\ SheetProblem(sheet) = "ok"
    /\ Len(sheet.values) = 3
    /\ Len(sheetData) = 1
    /\ sheetData[1].dollarsRaised <= 0
    /\ \A i \in 1..2 : \E k \in CandidateKeys : CellOf(i, "form_name") = Str(k)

-----------------------------------------------------------------------------
(* processData on every small pair of inputs *)

ProcessKeys == {<<"a">>, <<"b">>, CONSTRUCTOR}

\* rows getSheetData can return: amount > 0 or count > 0, under a fetched form slug
RetainedRowValues ==
    {r \in [formName : ProcessKeys, dollarsRaised : {0 - 100, 0, 100}, numDonations : {0, 1}] :
        r.dollarsRaised > 0 \/ r.numDonations > 0}

InitProcess ==
    /\ clock = 0
    /\ lastAutoSyncTime = NoProp
    /\ remote = RemoteTable
    /\ sheet = Grid(SheetHeader, <<>>)
    /\ pc = "process"
    /\ startState = [prop |-> lastAutoSyncTime, sheet |-> sheet]
    /\ trigger = "none"
    /\ rateLimited = NoCall
    /\ \E slugs \in RowLists(ProcessKeys, MaxRecs) \ {<<>>} :
          airtableRecords = RecordsFor(slugs)
    /\ sheetData \in RowLists(RetainedRowValues, MaxRows) \ {<<>>}
    /\ \A i \in 1..Len(sheetData) :
          \E j \in 1..Len(airtableRecords) :
              sheetData[i].formName = airtableRecords[j].formSlug
    /\ formTotals = EmptyObject
    /\ formDonations = EmptyObject
    /\ processedData = <<>>
    /\ index = 0
    /\ successCount = 0
    /\ errorCount = 0
    /\ requests = <<>>
    /\ log = <<>>
    /\ autoStamps = <<>>
    /\ prevRun = NoRun
    /\ pacing = <<>>
    /\ NoTargets
    /\ NoRace

NextProcess == Process

SpecProcess == InitProcess /\ [][NextProcess]_vars

\* the sum of field f over the rows of key k, in row order
RECURSIVE SumOfKey(_, _, _, _)
SumOfKey(rows, n, k, f) ==
    IF n = 0 THEN 0
    ELSE SumOfKey(rows, n - 1, k, f) + (IF rows[n].formName = k THEN rows[n][f] ELSE 0)

RowKeys == {sheetData[i].formName : i \in 1..Len(sheetData)}

\* C1 (as claimed): for every key of the retained rows (here: every key that is not
\* the name of an inherited object property), the aggregate holds the sum of the
\* amounts and the sum of the counts of the rows with that key.
C1_AggregateIsSumOfRows ==
    pc # "process" =>
        \A k \in RowKeys \ ObjectPrototypeKeys :
            /\ Get(formTotals, k) = Num(SumOfKey(sheetData, Len(sheetData), k, "dollarsRaised"))
            /\ Get(formDonations, k) = Num(SumOfKey(sheetData, Len(sheetData), k, "numDonations"))

\* C2 (as claimed): a remote record gets an update instruction if and only if its
\* matchKey equals the key of at least one retained row.
C2_InstructionIffKeyOnBothSides ==
    pc # "process" =>
        \A i \in 1..Len(airtableRecords) :
            (\E j \in 1..Len(processedData) : processedData[j].id = airtableRecords[i].id)
                <=> airtableRecords[i].formSlug \in RowKeys

-----------------------------------------------------------------------------
(* Claims about the rate limiter and the triggers *)

Threshold == RATE_LIMIT_HOURS * TicksPerHour

\* C6: shouldRespectRateLimit returns false when no timestamp is stored, and with a
\* stored timestamp returns true exactly when now - lastSync is strictly less than
\* the threshold (lastSync being the clock reading at which the timestamp was written).
C6_SkipIffWithinThreshold ==
    rateLimited.called =>
        (rateLimited.result <=>
            /\ rateLimited.lastStamp >= 0
            /\ rateLimited.now - rateLimited.lastStamp < Threshold)

\* C6 witness: a call made exactly one threshold after the stored timestamp, which
\* returns false
C6_Witness ==
    /\ rateLimited.called
    /\ rateLimited.lastStamp >= 0
    /\ rateLimited.now - rateLimited.lastStamp = Threshold
    /\ ~rateLimited.result

\* C7: two automatic triggers that go on to run syncData are at least the threshold
\* apart: the second stamps the property no earlier than one threshold after the first.
C7_AutoSyncsThresholdApart ==
    Len(autoStamps) = 2 => autoStamps[2] - autoStamps[1] >= Threshold

\* C7 witness: a second automatic sync running after a manual sync, stamped exactly
\* one threshold after the first automatic sync
C7_Witness ==
    /\ Len(autoStamps) = 2
    /\ autoStamps[2] - autoStamps[1] = Threshold
    /\ trigger = "onEdit"
    /\ pc = "sync"
    /\ prevRun.ran

\* C8: an execution of manualSyncData never consults the rate limiter, leaves the
\* stored timestamp as it found it, and runs syncData whatever the timestamp is.
C8_ManualBypassesRateLimit ==
    trigger = "manual" =>
        /\ rateLimited = NoCall
        /\ lastAutoSyncTime = startState.prop
        /\ (pc = "sync" \/ requests # <<>>)

\* C8 witness: a manual sync that ran to its end inside the window of a stored
\* timestamp, where an automatic trigger would have been skipped
C8_Witness ==
    /\ trigger = "manual"
    /\ pc = "idle"
    /\ requests # <<>>
    /\ lastAutoSyncTime # NoProp
    /\ clock - autoStamps[Len(autoStamps)] < Threshold

-----------------------------------------------------------------------------
(* Claims about the sync run *)

IsPatch(request) == request.method = "PATCH"

Patches == SelectSeq(requests, IsPatch)

RunComplete == pc = "idle" /\ requests # <<>>

C10_OnePatchPerInstruction ==
    /\ Len(Patches) <= Len(processedData)
    /\ \A i \in 1..Len(Patches) : Patches[i].id = processedData[i].id
    /\ successCount = Cardinality({i \in 1..Len(Patches) : Patches[i].outcome = "200"})
    /\ errorCount = Cardinality({i \in 1..Len(Patches) : Patches[i].outcome # "200"})
    /\ (pc = "idle" =>
           /\ Len(Patches) = Len(processedData)
           /\ successCount + errorCount = Len(processedData))

\* C10 witness: a finished run of two instructions whose first request threw and
\* whose second returned 200
C10_Witness ==
    /\ pc = "idle"
    /\ Len(processedData) = 2
    /\ Len(Patches) = 2
    /\ Patches[1].outcome = "throws"
    /\ Patches[2].outcome = "200"

-----------------------------------------------------------------------------
(* The multi-destination script (src/CONFIGURATION.md): its configuration *)

MaxTargets == 2   \* most entries of AIRTABLE_TARGETS
MaxTicks == 1   \* the clock of the multi-destination script stops ticking here

\* const RATE_LIMIT_HOURS = 0.25, counted in quarters of an hour
RATE_LIMIT_QUARTERS == 1

\* { baseId: "appGDzLGgrYmcW9R1", tableId: "tblTo3zgLYNby9UnL" }
Primary == [baseId |-> "appA", tableId |-> "tblA"]

\* a second destination, once its ids are filled in
Secondary == [baseId |-> "appB", tableId |-> "tblB"]

\* { baseId: "", tableId: "" } with only the table id filled in
HalfBlank == [baseId |-> "", tableId |-> "x"]

TargetConfigs == {Primary, Secondary, HalfBlank}

\* the lists AIRTABLE_TARGETS can hold: no destination is listed twice
TargetLists ==
    {list \in UNION {[1..n -> TargetConfigs] : n \in 0..MaxTargets} :
        \A i, j \in DOMAIN list :
            (i # j /\ list[i] = list[j]) => list[i] = HalfBlank}

\* the tables behind the two destinations
TargetTables ==
    (Primary :> << [id |-> "rec1", page |-> ACTBLUE_URL_PREFIX \o <<"a">>, fld |-> <<>>,
                    Raised |-> Num(100), Donations |-> Num(1)],
                   [id |-> "rec2", page |-> <<>>, fld |-> ACTBLUE_URL_PREFIX \o <<"b">>,
                    Raised |-> Num(100), Donations |-> Num(1)] >>)
    @@ (Secondary :> << [id |-> "rec7", page |-> ACTBLUE_URL_PREFIX \o <<"b">>, fld |-> <<>>,
                         Raised |-> Num(0), Donations |-> Num(0)],
                        [id |-> "rec8", page |-> ACTBLUE_URL_PREFIX \o <<"a">>, fld |-> <<>>,
                         Raised |-> Num(0), Donations |-> Num(0)] >>)

\* sheets the data sheet can hold, or no sheet of that name
TargetSheets ==
    { Grid(SheetHeader, << Cells(Str(<<"a">>), Num(100), Num(100)),
                           Cells(Str(<<"b">>), Num(250), Num(100)) >>),
      Grid(SheetHeader, << Cells(Str(<<"a">>), Num(100), Num(100)) >>),
      Grid(SheetHeader, << >>),
      Grid(<<"form_name", "dollars_raised">>, << Cells(Str(<<"a">>), Num(100), Num(100)) >>),
      [exists |-> FALSE, values |-> <<>>] }

-----------------------------------------------------------------------------
(* The multi-destination script: its functions *)

\* hourlyAutoSync's shouldRespectRateLimit(): hoursDiff < 0.25
shouldRespectRateLimitQuarter(prop, now) ==
    IF prop = NoProp THEN FALSE
    ELSE 4 * (now - DateParse(prop)) < RATE_LIMIT_QUARTERS * TicksPerHour

\* if (!cfg.baseId && !cfg.tableId): only a wholly blank target is skipped
IsBlankTargetBoth(cfg) == cfg.baseId = "" /\ cfg.tableId = ""

\* if (!cfg.baseId || !cfg.tableId)
IsBlankTarget(cfg) == cfg.baseId = "" \/ cfg.tableId = ""

\* !list || list.length === 0, with the test left out
IsEmptyNever(list) == FALSE

\* !list || list.length === 0
IsEmpty(list) == list = <<>>

\* the record => {id, actBlueUrl, formSlug} callback: the URL is read by field name only
ExtractRecordByName(record) ==
    LET actBlueUrl == record.page
        formSlug   == IF actBlueUrl # <<>> /\ IndexOf(actBlueUrl, ACTBLUE_URL_PREFIX) # 0
                      THEN ReplaceFirstWithEmpty(actBlueUrl, ACTBLUE_URL_PREFIX)
                      ELSE <<>>
    IN  [id |-> record.id, actBlueUrl |-> actBlueUrl, formSlug |-> formSlug]

\* how fetchAirtableRecords(cfg) ends: without the API key no request is made
FetchCause(key, outcome) == IF ~key THEN "nokey" ELSE outcome

\* fetchAirtableRecords(cfg) that returns the records it mapped although the
\* response was not usable
fetchAirtableRecordsCfgLenient(table, cause) ==
    SelectSeq([i \in 1..Len(table) |-> ExtractRecordByName(table[i])], HasFormSlug)

\* the value fetchAirtableRecords(cfg) returns
fetchAirtableRecordsCfg(table, cause) ==
    IF cause = "ok"
    THEN SelectSeq([i \in 1..Len(table) |-> ExtractRecordByName(table[i])], HasFormSlug)
    ELSE <<>>

\* the outcomes a GET of the target's table can have: a URL that names no table fails
FetchOutcomesFor(cfg) == IF cfg \in DOMAIN tables THEN FetchOutcomes ELSE {"throws"}

TableOf(cfg) == IF cfg \in DOMAIN tables THEN tables[cfg] ELSE <<>>

\* forEach: the next index after a callback, repeating a callback whose request failed
NextIndexRetrying(i, outcome) == IF outcome = "200" THEN i + 1 ELSE i

\* forEach: the next index after a callback
NextIndex(i, outcome) == i + 1

-----------------------------------------------------------------------------
(* The multi-destination script: triggers and syncData, one stage per step *)

Ids(list) == [i \in 1..Len(list) |-> list[i].id]

\* one entry of stageLog: what a stage did for the target at position target
Stage(target, stage, cause, ids, size, rows) ==
    [target |-> target, stage |-> stage, cause |-> cause, ids |-> ids, size |-> size,
     rows |-> rows]

\* the callback's locals are fresh for every target
FreshLocals ==
    /\ airtableRecords' = <<>>
    /\ sheetData' = <<>>
    /\ formTotals' = EmptyObject
    /\ formDonations' = EmptyObject
    /\ processedData' = <<>>
    /\ index' = 0
    /\ successCount' = 0
    /\ errorCount' = 0
    /\ pacing' = <<>>

\* a trigger execution of the multi-destination script begins
StartTargetsExecution(name) ==
    /\ trigger' = name
    /\ FreshLocals
    /\ requests' = <<>>
    /\ stageLog' = <<>>
    /\ cfgIndex' = 0
    /\ startState' = [prop |-> lastAutoSyncTime, sheet |-> sheet]

\* hourlyAutoSync() up to the rate-limit decision
HourlyAutoSyncCheck ==
    /\ pc = "idle"
    /\ StartTargetsExecution("hourly")
    /\ LET skip == shouldRespectRateLimitQuarter(lastAutoSyncTime, clock)
       IN  /\ rateLimited' = [called |-> TRUE, prop |-> lastAutoSyncTime,
                              lastStamp |-> IF autoStamps = <<>> THEN 0 - 1
                                            ELSE autoStamps[Len(autoStamps)],
                              now |-> clock, result |-> skip]
           /\ log' = IF skip THEN <<"INFO", "INFO">> ELSE <<"INFO">>
           /\ pc' = IF skip THEN "idle" ELSE "hstamp"
    /\ UNCHANGED <<envVars, obsVars, targets, apiKey, tables, raceVars>>

\* hourlyAutoSync(): updateLastSyncTime(); then syncData() up to its forEach
HourlyAutoSyncStamp ==
    /\ pc = "hstamp"
    /\ lastAutoSyncTime' = updateLastSyncTime(clock)
    /\ autoStamps' = LastTwo(Append(autoStamps, clock))
    /\ log' = Append(log, "INFO")
    /\ pc' = "foreach"
    /\ UNCHANGED <<clock, remote, sheet, trigger, rateLimited, syncVars, startState, prevRun,
                   otherVars>>

\* manualSyncData(): logMessage(...); then syncData() up to its forEach
ManualSyncTargets ==
    /\ pc = "idle"
    /\ StartTargetsExecution("manual")
    /\ rateLimited' = NoCall
    /\ log' = <<"INFO", "INFO">>
    /\ pc' = "foreach"
    /\ UNCHANGED <<envVars, obsVars, targets, apiKey, tables, raceVars>>

\* AIRTABLE_TARGETS.forEach: the next callback begins (a blank target returns at
\* once), or the loop is over and syncData logs its last message
ForEachTarget ==
    /\ pc = "foreach"
    /\ IF cfgIndex = Len(targets)
       THEN /\ log' = Append(log, "INFO")
            /\ pc' = "idle"
            /\ UNCHANGED <<cfgIndex, stageLog, syncVars>>
       ELSE IF IsBlankTarget(targets[cfgIndex + 1])
       THEN /\ log' = Append(log, "INFO")
            /\ stageLog' = Append(stageLog,
                                  Stage(cfgIndex + 1, "skip", "blank", <<>>, 0, <<"INFO">>))
            /\ cfgIndex' = cfgIndex + 1
            /\ pc' = "foreach"
            /\ UNCHANGED syncVars
       ELSE /\ FreshLocals
            /\ pc' = "tfetch"
            /\ UNCHANGED <<cfgIndex, stageLog, requests, log>>
    /\ UNCHANGED <<envVars, trigger, rateLimited, startState, obsVars, targets, apiKey,
                   tables, raceVars>>

\* the callback: fetchAirtableRecords(cfg) and the test of its result
TargetFetch(outcome) ==
    /\ pc = "tfetch"
    /\ outcome \in FetchOutcomesFor(targets[cfgIndex + 1])
    /\ LET cfg     == targets[cfgIndex + 1]
           cause   == FetchCause(apiKey, outcome)
           records == fetchAirtableRecordsCfg(TableOf(cfg), cause)
           rows    == fetchLog(TableOf(cfg), cause)
           empty   == IsEmpty(records)
       IN  /\ airtableRecords' = records
           /\ requests' = IF cause = "nokey" THEN requests
                          ELSE Append(requests, [method |-> "GET", target |-> cfgIndex + 1,
                                                 id |-> "", outcome |-> outcome])
           /\ log' = log \o rows \o (IF empty THEN <<"INFO">> ELSE <<>>)
           /\ stageLog' = Append(stageLog,
                                 Stage(cfgIndex + 1, "fetch", cause, Ids(records),
                                       Len(records), rows))
           /\ cfgIndex' = IF empty THEN cfgIndex + 1 ELSE cfgIndex
           /\ pc' = IF empty THEN "foreach" ELSE "tread"
    /\ UNCHANGED <<envVars, trigger, rateLimited, sheetData, formTotals, formDonations,
                   processedData, index, successCount, errorCount, pacing, startState,
                   obsVars, targets, apiKey, tables, raceVars>>

\* the callback: getSheetData(airtableRecords) and the test of its result
TargetReadSheet ==
    /\ pc = "tread"
    /\ LET result == getSheetData(sheet, airtableRecords)
           rows   == getSheetLog(sheet)
           empty  == IsEmpty(result)
       IN  /\ sheetData' = result
           /\ log' = log \o rows \o (IF empty THEN <<"INFO">> ELSE <<>>)
           /\ stageLog' = Append(stageLog,
                                 Stage(cfgIndex + 1, "read", SheetProblem(sheet), <<>>,
                                       Len(result), rows))
           /\ cfgIndex' = IF empty THEN cfgIndex + 1 ELSE cfgIndex
           /\ pc' = IF empty THEN "foreach" ELSE "tprocess"
    /\ UNCHANGED <<envVars, trigger, rateLimited, airtableRecords, formTotals, formDonations,
                   processedData, index, successCount, errorCount, requests, pacing,
                   startState, obsVars, targets, apiKey, tables, raceVars>>

\* the callback: processData(airtableRecords, sheetData) and the test of its result
TargetProcess ==
    /\ pc = "tprocess"
    /\ LET acc    == AggregateRows(sheetData, Len(sheetData))
           result == processData(airtableRecords, sheetData)
           rows   == <<"INFO", "INFO">>
           empty  == IsEmpty(result)
       IN  /\ formTotals' = acc.formTotals
           /\ formDonations' = acc.formDonations
           /\ processedData' = result
           /\ log' = log \o rows \o (IF empty THEN <<"INFO">> ELSE <<>>)
           /\ stageLog' = Append(stageLog,
                                 Stage(cfgIndex + 1, "process", "ok", Ids(result),
                                       Len(result), rows))
           /\ cfgIndex' = IF empty THEN cfgIndex + 1 ELSE cfgIndex
           /\ pc' = IF empty THEN "foreach" ELSE "tupdate"
    /\ UNCHANGED <<envVars, trigger, rateLimited, airtableRecords, sheetData, index,
                   successCount, errorCount, requests, pacing, startState, obsVars,
                   targets, apiKey, tables, raceVars>>

\* the callback: updateAirtable(cfg, processedData) up to its forEach; without the
\* API key it logs an error and returns
TargetUpdate ==
    /\ pc = "tupdate"
    /\ LET rows == IF apiKey THEN <<"INFO">> ELSE <<"INFO", "ERROR">>
       IN  /\ log' = log \o rows
           /\ stageLog' = Append(stageLog,
                                 Stage(cfgIndex + 1, "push", IF apiKey THEN "ok" ELSE "nokey",
                                       <<>>, Len(processedData), rows))
           /\ cfgIndex' = IF apiKey THEN cfgIndex ELSE cfgIndex + 1
           /\ pc' = IF apiKey THEN "tpush" ELSE "foreach"
    /\ UNCHANGED <<envVars, trigger, rateLimited, syncVars, startState, obsVars, targets,
                   apiKey, tables, raceVars>>

\* updateAirtable(cfg, processedData): one call of the forEach callback; after the
\* last one the closing logMessage of updateAirtable
TargetPatch(outcome) ==
    /\ pc = "tpush"
    /\ index < Len(processedData)
    /\ LET cfg    == targets[cfgIndex + 1]
           record == processedData[index + 1]
           counts == CountOutcome(outcome, [successCount |-> successCount,
                                            errorCount |-> errorCount])
           next   == NextIndex(index, outcome)
           last   == next = Len(processedData)
       IN  /\ requests' = Append(requests, [method |-> "PATCH", target |-> cfgIndex + 1,
                                            id |-> record.id, outcome |-> outcome])
           /\ tables' = IF outcome = "200"
                        THEN [tables EXCEPT ![cfg] = ApplyPatch(@, record)]
                        ELSE tables
           /\ successCount' = counts.successCount
           /\ errorCount' = counts.errorCount
           /\ index' = next
           /\ pacing' = pacing \o SleepBefore(index) \o <<"request">>
           /\ log' = log \o <<IF outcome = "200" THEN "INFO" ELSE "ERROR">>
                         \o (IF last THEN <<"INFO">> ELSE <<>>)
           /\ cfgIndex' = IF last THEN cfgIndex + 1 ELSE cfgIndex
           /\ pc' = IF last THEN "foreach" ELSE "tpush"
    /\ UNCHANGED <<envVars, trigger, rateLimited, airtableRecords, sheetData, formTotals,
                   formDonations, processedData, startState, obsVars, targets, apiKey,
                   stageLog, raceVars>>

\* someone deletes the script property AIRTABLE_API_KEY
DeleteApiKey ==
    /\ apiKey
    /\ apiKey' = FALSE
    /\ UNCHANGED <<envVars, runVars, obsVars, targets, cfgIndex, tables, stageLog, raceVars>>

\* one host call made outside every try block of the stages throws inside the forEach
\* callback (the logMessage that opens each stage function): the exception leaves the
\* forEach and the catch block of syncData logs it
StageThrows ==
    /\ pc \in {"tfetch", "tread", "tprocess", "tupdate"}
    /\ log' = Append(log, "ERROR")
    /\ stageLog' = Append(stageLog, Stage(cfgIndex + 1, "catch", "throws", <<>>, 0, <<"ERROR">>))
    /\ pc' = "idle"
    /\ UNCHANGED <<envVars, trigger, rateLimited, syncVars, startState, obsVars, targets,
                   cfgIndex, apiKey, tables, raceVars>>

\* time passes
TickTargets ==
    /\ clock < MaxTicks
    /\ clock' = clock + 1
    /\ UNCHANGED <<lastAutoSyncTime, remote, sheet, runVars, obsVars, otherVars>>

InitTargets ==
    /\ clock = 0
    /\ lastAutoSyncTime = NoProp
    /\ remote = <<>>
    /\ sheet \in TargetSheets
    /\ pc = "idle"
    /\ startState = [prop |-> lastAutoSyncTime, sheet |-> sheet]
    /\ IdleRun
    /\ targets \in TargetLists
    /\ cfgIndex = 0
    /\ apiKey \in BOOLEAN
    /\ tables = TargetTables
    /\ stageLog = <<>>
    /\ NoRace

NextTargets ==
    \/ HourlyAutoSyncCheck
    \/ HourlyAutoSyncStamp
    \/ ManualSyncTargets
    \/ ForEachTarget
    \/ \E outcome \in FetchOutcomes : TargetFetch(outcome)
    \/ TargetReadSheet
    \/ TargetProcess
    \/ TargetUpdate
    \/ \E outcome \in PatchOutcomes : TargetPatch(outcome)
    \/ DeleteApiKey
    \/ TickTargets

SpecTargets == InitTargets /\ [][NextTargets]_vars

NextTargetsFaulty ==
    \/ NextTargets
    \/ StageThrows

SpecTargetsFaulty == InitTargets /\ [][NextTargetsFaulty]_vars

-----------------------------------------------------------------------------
(* Claims about the multi-destination run *)

\* the last trigger of the multi-destination script went on to syncData
SyncStarted ==
    /\ trigger \in {"manual", "hourly"}
    /\ pc \notin {"hstamp"}
    /\ ~(rateLimited.called /\ rateLimited.result)

\* ... and syncData has returned
SyncEnded == SyncStarted /\ pc = "idle"

StagesOf(t) == SelectSeq(stageLog, LAMBDA e : e.target = t)

RequestsOf(t) == SelectSeq(requests, LAMBDA r : r.target = t)

Unexpected(e) == e.stage = "catch"

\* C11 (as claimed): when the processing of a target throws outside the stages, the
\* failure is caught and logged, it does not reach the trigger's caller, and every
\* later target of the list is still processed.
C11_LaterTargetsStillProcessed ==
    SyncEnded =>
        \A k \in 1..Len(stageLog) :
            Unexpected(stageLog[k]) =>
                /\ stageLog[k].rows = <<"ERROR">>
                /\ log[Len(log)] = "ERROR"
                /\ \A u \in (stageLog[k].target + 1)..Len(targets) : StagesOf(u) # <<>>

\* C12: a target whose baseId or tableId is blank gets no request and no stage: its
\* only trace is one INFO log row, and the run goes on to the targets after it, so a
\* finished run has gone through every target of the list.
C12_BlankTargetSkipped ==
    /\ \A t \in 1..Len(targets) :
          (targets[t].baseId = "" \/ targets[t].tableId = "") =>
              /\ RequestsOf(t) = <<>>
              /\ (t <= cfgIndex =>
                     StagesOf(t) = <<Stage(t, "skip", "blank", <<>>, 0, <<"INFO">>)>>)
              /\ (t > cfgIndex => StagesOf(t) = <<>>)
    /\ SyncEnded =>
          /\ cfgIndex = Len(targets)
          /\ \A t \in 1..Len(targets) : StagesOf(t) # <<>>
          /\ (\A t \in 1..Len(targets) : targets[t].baseId = "" \/ targets[t].tableId = "")
                 => log = [i \in 1..(Len(targets) + 3) |-> "INFO"]

\* C12 witness: a finished run over a blank target followed by a filled-in one, which
\* was fetched and updated
C12_Witness ==
    /\ SyncEnded
    /\ targets = <<HalfBlank, Secondary>>
    /\ RequestsOf(1) = <<>>
    /\ \E i \in 1..Len(requests) : requests[i].target = 2 /\ requests[i].method = "PATCH"

StageFailures == {"throws", "norecords", "nokey", "nosheet", "nodata", "nocolumns"}

Failed(e) == e.stage \in {"fetch", "read"} /\ e.cause \in StageFailures

\* C13: a fetch that fails (request error, no records collection, no API key) and a
\* sheet read that fails (no sheet, header row only, a required column missing)
\* return an empty list and log an ERROR row; the run goes on without the error: no
\* later stage and no PATCH request follow for that target.
C13_StageFailureDegradesToEmpty ==
    \A k \in 1..Len(stageLog) :
        Failed(stageLog[k]) =>
            /\ stageLog[k].size = 0
            /\ \E r \in 1..Len(stageLog[k].rows) : stageLog[k].rows[r] = "ERROR"
            /\ \A j \in (k + 1)..Len(stageLog) : stageLog[j].target # stageLog[k].target
            /\ \A r \in 1..Len(requests) :
                  requests[r].target = stageLog[k].target => requests[r].method = "GET"
            /\ (pc = "foreach" => cfgIndex >= stageLog[k].target)

\* C13 witness: a finished run in which the fetch of the first target failed and the
\* sheet read of the second found a required column missing
C13_Witness ==
    /\ SyncEnded
    /\ Len(stageLog) = 3
    /\ stageLog[1].stage = "fetch" /\ stageLog[1].cause \in {"throws", "norecords", "nokey"}
    /\ stageLog[3].stage = "read" /\ stageLog[3].cause = "nocolumns"

-----------------------------------------------------------------------------
(* Claims about what a run writes *)

LastRequest == requests'[Len(requests')]

\* C14: the sync is one-way. No step of a run changes the data sheet; the remote
\* table keeps its records (none created, none deleted); a record changes only in a
\* step that issues a PATCH addressed to it, the PATCH is addressed to a record the
\* fetch of this run returned and that got an update instruction, and it sets the
\* raised and donations fields to the instruction's totals and nothing else.
C14_OneWay ==
    [][ /\ (pc # "idle" => sheet' = sheet)
        /\ Ids(remote') = Ids(remote)
        /\ (requests' # requests /\ requests' # <<>> /\ LastRequest.method = "PATCH") =>
               /\ \E j \in 1..Len(airtableRecords) : airtableRecords[j].id = LastRequest.id
               /\ \E j \in 1..Len(processedData) : processedData[j].id = LastRequest.id
        /\ \A i \in 1..Len(remote) :
               remote'[i] # remote[i] =>
                   /\ requests' = Append(requests, LastRequest)
                   /\ LastRequest.method = "PATCH"
                   /\ LastRequest.id = remote[i].id
                   /\ \E j \in 1..Len(processedData) :
                          /\ processedData[j].id = remote[i].id
                          /\ remote'[i] = [remote[i] EXCEPT
                                              !.Raised = processedData[j].raised,
                                              !.Donations = processedData[j].donations] ]_vars

\* C14 witness: a finished run that changed the fields of one record and left the
\* record without an ActBlue URL, and the sheet, as they were
C14_Witness ==
    /\ RunComplete
    /\ sheet = startState.sheet
    /\ remote[1] # RemoteTable[1]
    /\ remote[3] = RemoteTable[3]
    /\ \E i \in 1..Len(requests) : requests[i].method = "PATCH" /\ requests[i].id = "rec1"

-----------------------------------------------------------------------------
(* Claims about the order of the stages *)

\* the stage that must have come right before a stage, for the same target
StageBefore(stage) ==
    CASE stage = "read"    -> "fetch"
      [] stage = "process" -> "read"
      [] stage = "push"    -> "process"

\* C15: for each target the stages come in the order fetch, sheet read, aggregate and
\* join, push, each one only after the one before returned a non-empty list; a stage
\* that returns an empty list is the target's last; the targets are taken in list
\* order, and a finished run has gone through all of them.
C15_StagesInOrder ==
    /\ \A k \in 1..Len(stageLog) :
          LET e == stageLog[k]
          IN  /\ e.stage \in {"skip", "fetch"} =>
                    e.target = (IF k = 1 THEN 1 ELSE stageLog[k - 1].target + 1)
              /\ e.stage \in {"read", "process", "push"} =>
                    /\ k > 1
                    /\ stageLog[k - 1].target = e.target
                    /\ stageLog[k - 1].stage = StageBefore(e.stage)
                    /\ stageLog[k - 1].size >= 1
              /\ (e.stage \in {"fetch", "read", "process"} /\ e.size = 0) =>
                    \A j \in (k + 1)..Len(stageLog) : stageLog[j].target # e.target
    /\ \A r \in 1..Len(requests) :
          requests[r].method = "PATCH" =>
              \E k \in 1..Len(stageLog) :
                  /\ stageLog[k].target = requests[r].target
                  /\ stageLog[k].stage = "push"
    /\ SyncEnded =>
          /\ cfgIndex = Len(targets)
          /\ \A t \in 1..Len(targets) : StagesOf(t) # <<>>

\* C15 witness: a finished run whose first target stopped at an empty fetch result and
\* whose second target went through all four stages
C15_Witness ==
    /\ SyncEnded
    /\ Len(targets) = 2
    /\ Len(StagesOf(1)) = 1 /\ StagesOf(1)[1].stage = "fetch" /\ StagesOf(1)[1].size = 0
    /\ Len(StagesOf(2)) = 4 /\ StagesOf(2)[4].stage = "push"
    /\ \E r \in 1..Len(requests) : requests[r].method = "PATCH" /\ requests[r].target = 2

-----------------------------------------------------------------------------
(* Claims about the pacing of the update requests *)

\* C16: the update requests go out one after the other with one 200 ms sleep between
\* every two of them and none before the first: after k callbacks the loop has made
\* k requests and k - 1 sleeps, alternating, whatever the outcomes of the requests.
C16_RequestsPaced ==
    /\ Len(pacing) = (IF index = 0 THEN 0 ELSE 2 * index - 1)
    /\ \A i \in 1..Len(pacing) :
          pacing[i] = (IF i % 2 = 1 THEN "request" ELSE "sleep200")
    /\ Len(Patches) = index
    /\ (pc = "idle" /\ processedData # <<>>) => index = Len(processedData)

\* C16 witness: a finished loop over two instructions whose first request failed:
\* two requests with one sleep between them
C16_Witness ==
    /\ pc = "idle"
    /\ Len(processedData) = 2
    /\ Patches[1].outcome # "200"
    /\ pacing = <<"request", "sleep200", "request">>

-----------------------------------------------------------------------------
(* onEdit on a host that does not serialize the executions *)

MaxExecs == 2   \* executions of onEdit that can be under way at once

Execs == 1..MaxExecs

\* updateAirtable: the table after the requests of all instructions from position i
\* on, when the service applies them
RECURSIVE ApplyAll(_, _, _)
ApplyAll(table, instructions, i) ==
    IF i > Len(instructions) THEN table
    ELSE ApplyAll(ApplyPatch(table, instructions[i]), instructions, i + 1)

\* onEdit(e) that goes on only when no other execution is between its check and the
\* end of its sync (a lock around the whole handler)
RaceCheckLocked(e) ==
    /\ \A other \in Execs : racePc[other] = "idle"
    /\ racePc[e] = "idle"
    /\ LET skip == shouldRespectRateLimit(lastAutoSyncTime, clock)
       IN  /\ raceSaw' = [raceSaw EXCEPT ![e] =
                             [called |-> TRUE, prop |-> lastAutoSyncTime, result |-> skip,
                              rows |-> IF skip THEN <<"INFO">> ELSE <<>>]]
           /\ racePc' = [racePc EXCEPT ![e] = IF skip THEN "idle" ELSE "stamp"]
    /\ UNCHANGED <<envVars, runVars, obsVars, targetVars>>

\* onEdit(e) of an edit in the data sheet, up to the rate-limit decision
RaceCheck(e) ==
    /\ racePc[e] = "idle"
    /\ LET skip == shouldRespectRateLimit(lastAutoSyncTime, clock)
       IN  /\ raceSaw' = [raceSaw EXCEPT ![e] =
                             [called |-> TRUE, prop |-> lastAutoSyncTime, result |-> skip,
                              rows |-> IF skip THEN <<"INFO">> ELSE <<>>]]
           /\ racePc' = [racePc EXCEPT ![e] = IF skip THEN "idle" ELSE "stamp"]
    /\ UNCHANGED <<envVars, runVars, obsVars, targetVars>>

\* onEdit(e): updateLastSyncTime(); logMessage(...)
RaceStamp(e) ==
    /\ racePc[e] = "stamp"
    /\ lastAutoSyncTime' = updateLastSyncTime(clock)
    /\ autoStamps' = LastTwo(Append(autoStamps, clock))
    /\ raceSaw' = [raceSaw EXCEPT ![e].rows = Append(@, "INFO")]
    /\ racePc' = [racePc EXCEPT ![e] = "sync"]
    /\ UNCHANGED <<clock, remote, sheet, runVars, prevRun, targetVars>>

\* onEdit(e): syncData(), from its first statement to its return, with the outcome
\* of its GET request and every PATCH request applied
RaceSync(e, outcome) ==
    /\ racePc[e] = "sync"
    /\ LET records      == fetchAirtableRecords(remote, outcome)
           rows         == IF records = <<>> THEN <<>> ELSE getSheetData(sheet, records)
           instructions == IF rows = <<>> THEN <<>> ELSE processData(records, rows)
       IN  remote' = ApplyAll(remote, instructions, 1)
    /\ racePc' = [racePc EXCEPT ![e] = "idle"]
    /\ UNCHANGED <<clock, lastAutoSyncTime, sheet, runVars, obsVars, targetVars, raceSaw>>

InitRace ==
    /\ clock = 0
    /\ lastAutoSyncTime = NoProp
    /\ remote = RemoteTable
    /\ sheet = Grid(SheetHeader, << Cells(Str(<<"a">>), Num(100), Num(100)),
                                    Cells(Str(<<"b">>), Num(250), Num(100)) >>)
    /\ pc = "idle"
    /\ startState = [prop |-> lastAutoSyncTime, sheet |-> sheet]
    /\ IdleRun
    /\ NoTargets
    /\ racePc = [e \in Execs |-> "idle"]
    /\ raceSaw = [e \in Execs |-> NoCall]

NextRace ==
    \/ \E e \in Execs : RaceCheck(e)
    \/ \E e \in Execs : RaceStamp(e)
    \/ \E e \in Execs, outcome \in FetchOutcomes : RaceSync(e, outcome)
    \/ Tick

SpecRace == InitRace /\ [][NextRace]_vars

\* C17: nothing keeps one execution of onEdit out while another is between its
\* rate-limit check and its timestamp write: an idle execution can always make its
\* check, every execution that is about to write or is running syncData read "not
\* rate limited", and the stored timestamp is the last write.
C17_NoLockAroundRateLimit ==
    /\ \A e \in Execs : racePc[e] = "idle" => ENABLED RaceCheck(e)
    /\ \A e \in Execs :
          racePc[e] \in {"stamp", "sync"} => (raceSaw[e].called /\ ~raceSaw[e].result)
    /\ autoStamps # <<>> => lastAutoSyncTime = toISOString(autoStamps[Len(autoStamps)])

\* C17 witness: two executions both read "not rate limited" from the empty property
\* before either wrote it, and both are running syncData with their timestamp writes
\* less than one threshold apart
C17_Witness ==
    /\ racePc[1] = "sync" /\ racePc[2] = "sync"
    /\ raceSaw[1].prop = NoProp /\ raceSaw[2].prop = NoProp
    /\ Len(autoStamps) = 2
    /\ autoStamps[2] - autoStamps[1] < Threshold
    /\ lastAutoSyncTime = toISOString(autoStamps[2])

-----------------------------------------------------------------------------
(* Termination of the multi-destination run *)

\* the steps of syncData: the host runs a started execution on
SyncStep ==
    \/ ForEachTarget
    \/ \E outcome \in FetchOutcomes : TargetFetch(outcome)
    \/ TargetReadSheet
    \/ TargetProcess
    \/ TargetUpdate
    \/ \E outcome \in PatchOutcomes : TargetPatch(outcome)

\* manual runs, one after the other, in an environment that stays as it is
NextTermination == ManualSyncTargets \/ SyncStep

SpecTermination == InitTargets /\ [][NextTermination]_vars /\ WF_vars(SyncStep)

\* the ids of the records the fetch of the target at position t returned
FetchedIds(t) ==
    UNION { {stageLog[k].ids[i] : i \in 1..Len(stageLog[k].ids)} :
            k \in {j \in 1..Len(stageLog) :
                      stageLog[j].target = t /\ stageLog[j].stage = "fetch"} }

GetsOf(t) == SelectSeq(requests, LAMBDA r : r.target = t /\ r.method = "GET")

PatchesOf(t) == SelectSeq(requests, LAMBDA r : r.target = t /\ r.method = "PATCH")

\* C18: every run ends: a started execution reaches the end of syncData, whatever the
\* outcomes of its requests, after at most one GET per target and at most one PATCH
\* per record the fetch of that target returned (no request is repeated).
C18_EveryRunTerminates ==
    /\ [](\A t \in 1..Len(targets) :
             /\ Len(GetsOf(t)) <= 1
             /\ \A i, j \in 1..Len(PatchesOf(t)) :
                   i # j => PatchesOf(t)[i].id # PatchesOf(t)[j].id
             /\ \A i \in 1..Len(PatchesOf(t)) : PatchesOf(t)[i].id \in FetchedIds(t))
    /\ ((pc # "idle") ~> (pc = "idle"))

\* C18 witness: a finished run over two targets in which every request failed
C18_Witness ==
    /\ SyncEnded
    /\ Len(targets) = 2
    /\ Len(GetsOf(1)) = 1 /\ GetsOf(1)[1].outcome = "throws"
    /\ Len(PatchesOf(2)) = 2
    /\ \A i \in 1..2 : PatchesOf(2)[i].outcome # "200"

-----------------------------------------------------------------------------
(* Claims about the timestamp of an automatic run *)

LastStamp == autoStamps[Len(autoStamps)]

\* C19: once an automatic trigger has passed the check, the property holds the time of
\* its updateLastSyncTime call before syncData issues its first request, and keeps it
\* whatever the run does: at every moment less than one threshold after that call
\* the rate limiter answers "skip".
C19_StampedBeforeFirstRequest ==
    /\ (trigger = "onEdit" /\ (pc \in {"sync", "read", "process", "push"} \/ requests # <<>>)) =>
          /\ autoStamps # <<>>
          /\ lastAutoSyncTime = toISOString(LastStamp)
          /\ LastStamp >= rateLimited.now
    /\ (autoStamps # <<>> /\ clock - LastStamp < Threshold) =>
          shouldRespectRateLimit(lastAutoSyncTime, clock)

\* C19 witness: an automatic run whose fetch failed has ended, and one tick later,
\* inside the window, automatic triggers are still suppressed
C19_Witness ==
    /\ trigger = "onEdit"
    /\ pc = "idle"
    /\ Len(requests) = 1 /\ requests[1].outcome = "throws"
    /\ clock = LastStamp + 1
    /\ clock - LastStamp < Threshold

-----------------------------------------------------------------------------
(* Either script deployed: the single-destination script with its edit trigger, or the
   multi-destination script with its hourly trigger *)

InitEither == Init \/ (InitTargets /\ targets # <<>>)

SingleDestination == targets = <<>>

NextEither ==
    \/ \E name \in SheetNames : SingleDestination /\ OnEditCheck(name)
    \/ SingleDestination /\ OnEditStamp
    \/ SingleDestination /\ ManualSyncData
    \/ \E outcome \in FetchOutcomes : SingleDestination /\ Fetch(outcome)
    \/ SingleDestination /\ ReadSheet
    \/ SingleDestination /\ Process
    \/ \E outcome \in PatchOutcomes : SingleDestination /\ Patch(outcome)
    \/ SingleDestination /\ Tick
    \/ SingleDestination /\ EditSheet
    \/ ~SingleDestination /\ HourlyAutoSyncCheck
    \/ ~SingleDestination /\ HourlyAutoSyncStamp
    \/ ~SingleDestination /\ ManualSyncTargets
    \/ ~SingleDestination /\ ForEachTarget
    \/ \E outcome \in FetchOutcomes : ~SingleDestination /\ TargetFetch(outcome)
    \/ ~SingleDestination /\ TargetReadSheet
    \/ ~SingleDestination /\ TargetProcess
    \/ ~SingleDestination /\ TargetUpdate
    \/ \E outcome \in PatchOutcomes : ~SingleDestination /\ TargetPatch(outcome)
    \/ ~SingleDestination /\ DeleteApiKey
    \/ ~SingleDestination /\ TickTargets

SpecEither == InitEither /\ [][NextEither]_vars

\* the last execution was an automatic trigger that returned before updateLastSyncTime
DidNotProceed ==
    /\ trigger \in {"onEdit", "hourly"}
    /\ \/ ~rateLimited.called
       \/ rateLimited.result

\* C20 as stated: an automatic trigger that does not proceed leaves the timestamp as it
\* was, issues no request and appends at most one log row.
C20_AtMostOneLogRow ==
    DidNotProceed =>
        /\ pc = "idle"
        /\ lastAutoSyncTime = startState.prop
        /\ requests = <<>>
        /\ Len(log) <= 1

\* C20 amended: an automatic trigger that does not proceed leaves the timestamp as it
\* was and issues no request; the edit trigger appends no log row for another sheet
\* and one when rate limited, the hourly trigger appends two when rate limited.
C20_SkippedTriggerOnlyLogs ==
    DidNotProceed =>
        /\ pc = "idle"
        /\ lastAutoSyncTime = startState.prop
        /\ requests = <<>>
        /\ Len(log) = (IF ~rateLimited.called THEN 0
                       ELSE IF trigger = "onEdit" THEN 1 ELSE 2)

\* C20 witness: a rate-limited hourly trigger has returned, the timestamp of the earlier
\* run still stored
C20_Witness ==
    /\ trigger = "hourly"
    /\ rateLimited.called /\ rateLimited.result
    /\ pc = "idle"
    /\ lastAutoSyncTime = toISOString(LastStamp)
    /\ Len(log) = 2

-----------------------------------------------------------------------------
(* Claims about the join of processData *)

\* the place in airtableRecords of the record instruction j was pushed for
JoinedFrom(j) ==
    CHOOSE p \in 1..Len(airtableRecords) : airtableRecords[p].id = processedData[j].id

HasInstruction(p) ==
    \E j \in 1..Len(processedData) : processedData[j].id = airtableRecords[p].id

\* C21: processData emits at most one instruction per fetched record, in the order of
\* the fetched records; each instruction carries the id of the record it was joined
\* from and the whole aggregate of that record's form slug, so records sharing a form
\* slug each get an instruction of their own with the same totals.
C21_OneInstructionPerRecordInOrder ==
    pc # "process" =>
        /\ \A j \in 1..Len(processedData) :
              /\ \E p \in 1..Len(airtableRecords) :
                    airtableRecords[p].id = processedData[j].id
              /\ LET formSlug == airtableRecords[JoinedFrom(j)].formSlug
                 IN  /\ processedData[j].raised = OrElse(Get(formTotals, formSlug), Num(0))
                     /\ processedData[j].donations =
                            OrElse(Get(formDonations, formSlug), Num(0))
        /\ \A j, k \in 1..Len(processedData) :
              j < k => JoinedFrom(j) < JoinedFrom(k)
        /\ \A p, q \in 1..Len(airtableRecords) :
              airtableRecords[p].formSlug = airtableRecords[q].formSlug =>
                  /\ HasInstruction(p) <=> HasInstruction(q)
                  /\ \A j, k \in 1..Len(processedData) :
                        (JoinedFrom(j) = p /\ JoinedFrom(k) = q) =>
                            /\ processedData[j].raised = processedData[k].raised
                            /\ processedData[j].donations = processedData[k].donations

\* C21 witness: two fetched records share a form slug whose rows sum to a positive
\* amount, and each got an instruction with that amount
C21_Witness ==
    /\ pc # "process"
    /\ Len(airtableRecords) >= 2
    /\ airtableRecords[1].formSlug = airtableRecords[2].formSlug
    /\ Len(processedData) >= 2
    /\ processedData[1].id = airtableRecords[1].id
    /\ processedData[2].id = airtableRecords[2].id
    /\ processedData[1].raised = Num(200)
    /\ processedData[2].raised = Num(200)
    /\ processedData[1].donations = Num(2)

====
